---- MODULE Spec2Model ----
(***************************************************************************)
(* A model of the EPG converter scripts (scripts/update-epg.mjs in its     *)
(* three revisions) and of the image database accumulator                  *)
(* (update-epg-db.mjs).  JavaScript strings are TLA+ strings, read with    *)
(* Len, SubSeq and \o; null is the value JsNull.                           *)
(***************************************************************************)
EXTENDS Integers, Sequences, FiniteSets, TLC

VARIABLES
    hostOffsetMin,  \* the host's local time zone, minutes east of UTC
    tsIn,           \* formatTimeIST: the argument originalTs of the last call
    tsUtc,          \* formatTimeIST: dateUtc, what parseXmltvTime returned
    tsOut,          \* formatTimeIST: the value returned, NotCalled before
    stripIn,        \* stripTags: the argument s of the first call
    stripOnce,      \* stripTags(s)
    stripTwice,     \* stripTags(stripTags(s))
    feed,           \* the programme blocks the upstream feed holds, in order
    xmlText,        \* the decompressed document handed to parseEPGProgrammes
    epgPc,          \* "feed", then "parsed", then "grouped"
    programmes,     \* what parseEPGProgrammes returned
    byChannel,      \* what groupByChannel returned
    sources,        \* what each URL of EPG_SOURCES answers this run
    mainPc,         \* main: "loop", "done" or "exited"
    srcIdx,         \* main: the source the loop is at
    allProgrammes,  \* main: allProgrammes
    sourcesMeta,    \* main: sourcesMeta
    published,      \* the files under public/ this run has written
    exitCode,       \* the code given to process.exit, 0 when not called
    dataDir,        \* the files of IMAGE_DB_DIR: file name -> content
    imageLoads,     \* the fileIds loadImageMapFile was called with, in order
    lastFetch       \* update-epg-db: the pathId and the API's answer of the last
                    \* processChannel, NotCalled before the first

timeVars == <<hostOffsetMin, tsIn, tsUtc, tsOut>>

stripVars == <<stripIn, stripOnce, stripTwice>>

epgVars == <<feed, xmlText, epgPc, programmes, byChannel>>

multiVars ==
    <<sources, mainPc, srcIdx, allProgrammes, sourcesMeta, published, exitCode>>

imageVars == <<dataDir, imageLoads>>

dbVars == <<lastFetch>>

vars == <<timeVars, stripVars, epgVars, multiVars, imageVars, dbVars>>

\* What the calls of one function leave alone
notTime == <<stripVars, epgVars, multiVars, imageVars, dbVars>>

notStrip == <<timeVars, epgVars, multiVars, imageVars, dbVars>>

notEpg == <<stripVars, tsIn, tsUtc, tsOut, multiVars, imageVars, dbVars>>

notMulti == <<stripVars, tsIn, tsUtc, tsOut, epgVars, imageVars, dbVars>>

notImages == <<timeVars, stripVars, multiVars, dbVars>>

notDb == <<timeVars, stripVars, epgVars, multiVars, imageLoads>>

(***************************************************************************)
(* JavaScript values and strings                                           *)
(***************************************************************************)
JsNull == [t |-> "null"]

Str(s) == [t |-> "string", v |-> s]

\* No call has been made yet.
NotCalled == [t |-> "none"]

\* !x for a string or null
Falsy(x) == x = JsNull \/ x = Str("")

CharAt(s, i) == SubSeq(s, i, i)

\* The characters \s and trim() treat as white space (those the inputs use).
WhiteSpace == {" ", "\t", "\n"}

DigitChars == "0123456789"

IsDigit(c) == c \in {"0", "1", "2", "3", "4", "5", "6", "7", "8", "9"}

DigitVal(c) ==
    CASE c = "0" -> 0 [] c = "1" -> 1 [] c = "2" -> 2 [] c = "3" -> 3
      [] c = "4" -> 4 [] c = "5" -> 5 [] c = "6" -> 6 [] c = "7" -> 7
      [] c = "8" -> 8 [] c = "9" -> 9

RECURSIVE Number(_)
\* Number(s) of a string of decimal digits
Number(s) ==
    IF Len(s) = 0 THEN 0
    ELSE 10 * Number(SubSeq(s, 1, Len(s) - 1)) + DigitVal(CharAt(s, Len(s)))

RECURSIVE StringOf(_)
\* String(n) of a non-negative integer
StringOf(n) ==
    IF n < 10 THEN CharAt(DigitChars, n + 1)
    ELSE StringOf(n \div 10) \o CharAt(DigitChars, (n % 10) + 1)

RECURSIVE PadStart(_, _, _)
\* s.padStart(width, fill) for a one-character fill
PadStart(s, width, fill) ==
    IF Len(s) >= width THEN s ELSE PadStart(fill \o s, width, fill)

RECURSIVE TrimStart(_)
TrimStart(s) ==
    IF Len(s) > 0 /\ CharAt(s, 1) \in WhiteSpace THEN TrimStart(Tail(s)) ELSE s

RECURSIVE TrimEnd(_)
TrimEnd(s) ==
    IF Len(s) > 0 /\ CharAt(s, Len(s)) \in WhiteSpace
    THEN TrimEnd(SubSeq(s, 1, Len(s) - 1))
    ELSE s

\* s.trim()
Trim(s) == TrimEnd(TrimStart(s))

RECURSIVE AllDigits(_)
AllDigits(s) == Len(s) = 0 \/ (IsDigit(CharAt(s, 1)) /\ AllDigits(Tail(s)))

RECURSIVE SkipSpace(_, _)
\* the first position at or after i that holds no white space (\s*)
SkipSpace(s, i) ==
    IF i <= Len(s) /\ CharAt(s, i) \in WhiteSpace THEN SkipSpace(s, i + 1) ELSE i

(***************************************************************************)
(* stripTags                                                               *)
(***************************************************************************)
RECURSIVE FirstWhere(_, _, _)
\* the first position in lo..hi that satisfies P, 0 when none does (the
\* range is halved, which keeps the evaluation shallow on long texts)
FirstWhere(P(_), lo, hi) ==
    IF lo > hi THEN 0
    ELSE IF lo = hi THEN (IF P(lo) THEN lo ELSE 0)
    ELSE LET mid  == (lo + hi) \div 2
             left == FirstWhere(P, lo, mid)
         IN  IF left # 0 THEN left ELSE FirstWhere(P, mid + 1, hi)

\* the first position at or after i of s that holds c, 0 when none does
IndexOfChar(s, c, i) ==
    LET Holds(k) == CharAt(s, k) = c
    IN  FirstWhere(Holds, i, Len(s))

\* /<[^>]+>/ at position i of s: the position of the closing ">", or 0
TagEnd(s, i) ==
    IF /\ CharAt(s, i) = "<"
       /\ i + 1 <= Len(s)
       /\ CharAt(s, i + 1) # ">"
    THEN IndexOfChar(s, ">", i + 2)
    ELSE 0

RECURSIVE RemoveTags(_, _)
\* s.replace(/<[^>]+>/g, "") from position i on
RemoveTags(s, i) ==
    IF i > Len(s) THEN ""
    ELSE IF TagEnd(s, i) # 0 THEN RemoveTags(s, TagEnd(s, i) + 1)
    ELSE CharAt(s, i) \o RemoveTags(s, i + 1)

RECURSIVE CollapseSpace(_, _)
\* s.replace(/\s+/g, " ") from position i on
CollapseSpace(s, i) ==
    IF i > Len(s) THEN ""
    ELSE IF CharAt(s, i) \in WhiteSpace
         THEN " " \o CollapseSpace(s, SkipSpace(s, i))
         ELSE CharAt(s, i) \o CollapseSpace(s, i + 1)

\* A mutant: the tag pattern without the flag g removes the first tag only.
stripTags_FirstTagOnly(s) ==
    LET RECURSIVE First(_)
        First(i) ==
            IF i > Len(s) THEN s
            ELSE IF TagEnd(s, i) # 0
                 THEN SubSeq(s, 1, i - 1) \o SubSeq(s, TagEnd(s, i) + 1, Len(s))
                 ELSE First(i + 1)
    IN  Trim(CollapseSpace(First(1), 1))

stripTags(s) == Trim(CollapseSpace(RemoveTags(s, 1), 1))

(***************************************************************************)
(* ECMAScript time values.  A time value is kept as days since the epoch   *)
(* and milliseconds within the day (MakeDate(day, time) is                 *)
(* day * msPerDay + time), which keeps every number within 32 bits.        *)
(***************************************************************************)
MsPerDay == 86400000

\* MakeDay for the first of a month: the day number of year y, month index
\* mn in 0..11, by the proleptic Gregorian calendar.
DayFromYearMonth(y, mn) ==
    LET m   == mn + 1
        yy  == IF m <= 2 THEN y - 1 ELSE y
        era == yy \div 400
        yoe == yy - era * 400
        mp  == IF m > 2 THEN m - 3 ELSE m + 9
        doy == (153 * mp + 2) \div 5
        doe == yoe * 365 + yoe \div 4 - yoe \div 100 + doy
    IN  era * 146097 + doe - 719468

\* A time value normalised to 0 <= ms < MsPerDay.
MakeDate(day, ms) == [day |-> day + ms \div MsPerDay, ms |-> ms % MsPerDay]

\* Date.UTC(y, mo, d, h, min, s): a year of 0..99 means 1900 + year; month,
\* day, hour, minute and second overflow into the next larger unit.
DateUTC(y, mo, d, h, min, s) ==
    LET yr == IF y >= 0 /\ y <= 99 THEN 1900 + y ELSE y
        ym == yr + mo \div 12
        mn == mo % 12
    IN  MakeDate(DayFromYearMonth(ym, mn) + d - 1,
                 h * 3600000 + min * 60000 + s * 1000)

\* t + ms for a time value t
AddMillis(t, ms) == MakeDate(t.day, t.ms + ms)

\* YearFromTime, MonthFromTime (as a month index) and DateFromTime of a day
CivilFromDay(day) ==
    LET z   == day + 719468
        era == z \div 146097
        doe == z - era * 146097
        yoe == (doe - doe \div 1460 + doe \div 36524 - doe \div 146096) \div 365
        doy == doe - (365 * yoe + yoe \div 4 - yoe \div 100)
        mp  == (5 * doy + 2) \div 153
        d   == doy - (153 * mp + 2) \div 5 + 1
        m   == IF mp < 10 THEN mp + 3 ELSE mp - 9
    IN  [year |-> yoe + era * 400 + (IF m <= 2 THEN 1 ELSE 0),
         month |-> m - 1, date |-> d]

(***************************************************************************)
(* parseXmltvTime                                                          *)
(***************************************************************************)
DateOf(t) == [t |-> "date", time |-> t]

\* [+-]\d{2}:?\d{2} at position p of s: the text matched, or "" for no match
MatchOffset(s, p) ==
    IF /\ p + 2 <= Len(s)
       /\ CharAt(s, p) \in {"+", "-"}
       /\ AllDigits(SubSeq(s, p + 1, p + 2))
    THEN LET colon == p + 3 <= Len(s) /\ CharAt(s, p + 3) = ":"
             q     == IF colon THEN p + 4 ELSE p + 3
         IN  IF q + 1 <= Len(s) /\ AllDigits(SubSeq(s, q, q + 1))
             THEN SubSeq(s, p, q + 1)
             ELSE ""
    ELSE ""

\* The group ([+-]\d{2}:?\d{2}|[+-]\d{4}|Z) of the pattern, flag i, after \s*
\* from position p: the text of m[2], or JsNull when the group takes no part.
MatchTz(s, p) ==
    LET q == SkipSpace(s, p)
    IN  IF MatchOffset(s, q) # "" THEN Str(MatchOffset(s, q))
        ELSE IF q <= Len(s) /\ CharAt(s, q) \in {"Z", "z"} THEN Str(CharAt(s, q))
        ELSE JsNull

\* tz.replace(":", "")
DropColon(tz) ==
    IF Len(tz) >= 4 /\ CharAt(tz, 4) = ":"
    THEN SubSeq(tz, 1, 3) \o SubSeq(tz, 5, Len(tz))
    ELSE tz

\* A mutant: the sign of the offset is not read.
OffsetMinutes_Unsigned(tz) ==
    LET tzClean == DropColon(tz)
    IN  Number(SubSeq(tzClean, 2, 3)) * 60 + Number(SubSeq(tzClean, 4, 5))

OffsetMinutes(tz) ==
    LET tzClean == DropColon(tz)
        sign    == IF CharAt(tzClean, 1) = "-" THEN -1 ELSE 1
        hh      == Number(SubSeq(tzClean, 2, 3))
        mm      == Number(SubSeq(tzClean, 4, 5))
    IN  sign * (hh * 60 + mm)

parseXmltvTime(tsArg) ==
    IF Falsy(tsArg) THEN JsNull
    ELSE
      LET ts == Trim(tsArg.v)
      IN  IF ~(Len(ts) >= 14 /\ AllDigits(SubSeq(ts, 1, 14))) THEN JsNull
          ELSE
            LET dt  == SubSeq(ts, 1, 14)
                tz  == MatchTz(ts, 15)
                y   == Number(SubSeq(dt, 1, 4))
                mo  == Number(SubSeq(dt, 5, 6)) - 1
                d   == Number(SubSeq(dt, 7, 8))
                h   == Number(SubSeq(dt, 9, 10))
                min == Number(SubSeq(dt, 11, 12))
                s   == Number(SubSeq(dt, 13, 14))
                utcMillis == DateUTC(y, mo, d, h, min, s)
            IN  IF tz # JsNull /\ tz.v \notin {"Z", "z"}
                THEN DateOf(AddMillis(utcMillis,
                                      -(OffsetMinutes(tz.v) * 60 * 1000)))
                ELSE DateOf(utcMillis)

\* The local time of a time value on this host: t + LocalTZA
LocalTime(t) == AddMillis(t, hostOffsetMin * 60000)

getFullYear(t) == CivilFromDay(LocalTime(t).day).year

getMonth(t) == CivilFromDay(LocalTime(t).day).month

getDate(t) == CivilFromDay(LocalTime(t).day).date

getHours(t) == LocalTime(t).ms \div 3600000

getMinutes(t) == (LocalTime(t).ms \div 60000) % 60

getSeconds(t) == (LocalTime(t).ms \div 1000) % 60

\* 5.5 * 3600 * 1000
IstShiftMillis == 19800000

\* A mutant: a failed parse returns the empty string.
formatTimeIST_DropsRaw(originalTs) ==
    LET dateUtc == parseXmltvTime(originalTs)
    IN  IF dateUtc = JsNull THEN ""
        ELSE "parsed"

formatTimeIST(originalTs) ==
    LET dateUtc == parseXmltvTime(originalTs)
    IN  IF dateUtc = JsNull
        THEN (IF Falsy(originalTs) THEN "" ELSE originalTs.v)
        ELSE
          LET ist  == AddMillis(dateUtc.time, IstShiftMillis)
              yyyy == StringOf(getFullYear(ist))
              mm   == PadStart(StringOf(getMonth(ist) + 1), 2, "0")
              dd   == PadStart(StringOf(getDate(ist)), 2, "0")
              hh   == PadStart(StringOf(getHours(ist)), 2, "0")
              mi   == PadStart(StringOf(getMinutes(ist)), 2, "0")
              ss   == PadStart(StringOf(getSeconds(ist)), 2, "0")
          IN  yyyy \o "-" \o mm \o "-" \o dd \o " "
                   \o hh \o ":" \o mi \o ":" \o ss \o " IST"

(***************************************************************************)
(* parseEPGProgrammes                                                      *)
(***************************************************************************)
UpperChars == "ABCDEFGHIJKLMNOPQRSTUVWXYZ"

LowerChars == "abcdefghijklmnopqrstuvwxyz"

LowerChar(c) ==
    LET k == IndexOfChar(UpperChars, c, 1)
    IN  IF k = 0 THEN c ELSE CharAt(LowerChars, k)

RECURSIVE ToLowerCase(_)
\* The text as the flag i compares it
ToLowerCase(s) ==
    IF Len(s) = 0 THEN ""
    ELSE IF Len(s) = 1 THEN LowerChar(s)
    ELSE LET mid == Len(s) \div 2
         IN  ToLowerCase(SubSeq(s, 1, mid)) \o ToLowerCase(SubSeq(s, mid + 1, Len(s)))

\* \w
IsWordChar(c) ==
    \/ IsDigit(c)
    \/ c = "_"
    \/ IndexOfChar(UpperChars, c, 1) # 0
    \/ IndexOfChar(LowerChars, c, 1) # 0

\* [\w:\-]
IsAttrNameChar(c) == IsWordChar(c) \/ c \in {":", "-"}

StartsWithAt(s, pat, i) ==
    i + Len(pat) - 1 <= Len(s) /\ SubSeq(s, i, i + Len(pat) - 1) = pat

\* the first position at or after i where pat occurs in s, 0 when nowhere
IndexOf(s, pat, i) ==
    LET Holds(k) == StartsWithAt(s, pat, k)
    IN  FirstWhere(Holds, i, Len(s) - Len(pat) + 1)

\* the first position at or after i where one of pats occurs in s, 0 when none
IndexOfAny(s, pats, i) ==
    LET Holds(k) == \E pat \in pats : StartsWithAt(s, pat, k)
    IN  FirstWhere(Holds, i, Len(s))

NoMatch == [found |-> FALSE]

\* the last position in i..Len(s) where pat occurs in s, 0 when nowhere
LastIndexOf(s, pat, i) ==
    LET hits == { k \in i..Len(s) : StartsWithAt(s, pat, k) }
    IN  IF hits = {} THEN 0 ELSE CHOOSE k \in hits : \A j \in hits : j <= k

\* A mutant: the body is matched greedily, up to the last closing tag.
ExecProgramme_Greedy(xml, low, from) ==
    LET i     == IndexOf(low, "<programme", from)
        after == i + 10
        gt    == IndexOfChar(xml, ">", after)
        close == LastIndexOf(low, "</programme>", gt + 1)
    IN  IF i = 0 \/ gt = 0 \/ close = 0 THEN NoMatch
        ELSE [found |-> TRUE,
              attrText |-> SubSeq(xml, after, gt - 1),
              inner |-> SubSeq(xml, gt + 1, close - 1),
              lastIndex |-> close + 12]

RECURSIVE ExecProgramme(_, _, _)
\* progRegex.exec(xml) with lastIndex = from - 1, low being xml as the flag i
\* compares it: /<programme\b([^>]*)>([\s\S]*?)<\/programme>/gi
ExecProgramme(xml, low, from) ==
    LET i     == IndexOf(low, "<programme", from)
        after == i + 10
        gt    == IndexOfChar(xml, ">", after)
        close == IndexOf(low, "</programme>", gt + 1)
    IN  IF i = 0 THEN NoMatch
        ELSE IF /\ (after > Len(xml) \/ ~IsWordChar(CharAt(xml, after)))
                /\ gt # 0
                /\ close # 0
        THEN [found |-> TRUE,
              attrText |-> SubSeq(xml, after, gt - 1),
              inner |-> SubSeq(xml, gt + 1, close - 1),
              lastIndex |-> close + 12]
        ELSE ExecProgramme(xml, low, i + 1)

RECURSIVE NameEnd(_, _)
\* the last position of the run of attribute name characters that starts at i
NameEnd(s, i) ==
    IF i + 1 <= Len(s) /\ IsAttrNameChar(CharAt(s, i + 1))
    THEN NameEnd(s, i + 1)
    ELSE i

RECURSIVE MatchAllAttrs(_, _)
\* [...attrText.matchAll(/([\w:\-]+)="([^"]*)"/g)].map((m) => [m[1], m[2]])
MatchAllAttrs(s, i) ==
    IF i > Len(s) THEN <<>>
    ELSE IF ~IsAttrNameChar(CharAt(s, i)) THEN MatchAllAttrs(s, i + 1)
    ELSE
      LET e == NameEnd(s, i)
          q == IndexOfChar(s, "\"", e + 3)
      IN  IF StartsWithAt(s, "=\"", e + 1) /\ q # 0
          THEN <<[name |-> SubSeq(s, i, e), value |-> SubSeq(s, e + 3, q - 1)]>>
                   \o MatchAllAttrs(s, q + 1)
          ELSE MatchAllAttrs(s, i + 1)

RECURSIVE AttrOr(_, _, _)
\* attrs[name] ?? dflt, attrs being Object.fromEntries(pairs): the last pair
\* of a name is the one kept
AttrOr(pairs, name, dflt) ==
    IF Len(pairs) = 0 THEN dflt
    ELSE IF pairs[Len(pairs)].name = name THEN pairs[Len(pairs)].value
    ELSE AttrOr(SubSeq(pairs, 1, Len(pairs) - 1), name, dflt)

RECURSIVE MatchElement(_, _, _, _, _)
\* inner.match(/<open[^>]*>([\s\S]*?)<\/close>/i) for the open and close tag
\* names given (in lower case): the first capture, or JsNull
MatchElement(inner, low, opens, closes, from) ==
    LET i     == IndexOfAny(low, opens, from)
        o     == CHOOSE x \in opens : StartsWithAt(low, x, i)
        gt    == IndexOfChar(inner, ">", i + Len(o))
        close == IndexOfAny(low, closes, gt + 1)
    IN  IF i = 0 THEN JsNull
        ELSE IF gt # 0 /\ close # 0 THEN Str(SubSeq(inner, gt + 1, close - 1))
        ELSE MatchElement(inner, low, opens, closes, i + 1)

Programme(attrs, inner) ==
    LET low           == ToLowerCase(inner)
        titleMatch    == MatchElement(inner, low, {"<title"}, {"</title>"}, 1)
        subtitleMatch == MatchElement(inner, low, {"<sub-title", "<sub_title"},
                                      {"</sub-title>", "</sub_title>"}, 1)
        startRaw      == AttrOr(attrs, "start", "")
        stopRaw       == AttrOr(attrs, "stop", "")
    IN  [startRaw |-> startRaw,
         stopRaw  |-> stopRaw,
         start    |-> formatTimeIST(Str(startRaw)),
         stop     |-> formatTimeIST(Str(stopRaw)),
         channel  |-> AttrOr(attrs, "channel", ""),
         title    |-> IF titleMatch # JsNull
                      THEN Trim(stripTags(titleMatch.v)) ELSE "Untitled",
         subTitle |-> IF subtitleMatch # JsNull
                      THEN Trim(stripTags(subtitleMatch.v)) ELSE ""]

RECURSIVE ExtractFrom(_, _, _)
ExtractFrom(xml, low, from) ==
    LET match == ExecProgramme(xml, low, from)
    IN  IF ~match.found THEN <<>>
        ELSE <<Programme(MatchAllAttrs(match.attrText, 1), match.inner)>>
                 \o ExtractFrom(xml, low, match.lastIndex)

parseEPGProgrammes(xml) == ExtractFrom(xml, ToLowerCase(xml), 1)

(***************************************************************************)
(* groupByChannel: a Map is the sequence of its entries in insertion order *)
(***************************************************************************)
MapHas(map, key) == \E i \in 1..Len(map) : map[i].key = key

\* map.get(key).push(p)
MapPush(map, key, p) ==
    [i \in 1..Len(map) |->
        IF map[i].key = key THEN [map[i] EXCEPT !.value = @ \o <<p>>] ELSE map[i]]

\* A mutant: the bucket is made anew for every programme.
GroupStep_ResetsBucket(map, p) ==
    LET ch == IF p.channel = "" THEN "unknown" ELSE p.channel
    IN  IF MapHas(map, ch)
        THEN [i \in 1..Len(map) |->
                 IF map[i].key = ch THEN [key |-> ch, value |-> <<p>>] ELSE map[i]]
        ELSE map \o <<[key |-> ch, value |-> <<p>>]>>

\* One turn of the loop of groupByChannel
GroupStep(map, p) ==
    LET ch == IF p.channel = "" THEN "unknown" ELSE p.channel
        m1 == IF ~MapHas(map, ch) THEN map \o <<[key |-> ch, value |-> <<>>]>>
              ELSE map
    IN  MapPush(m1, ch, p)

RECURSIVE GroupFrom(_, _, _)
GroupFrom(map, list, i) ==
    IF i > Len(list) THEN map ELSE GroupFrom(GroupStep(map, list[i]), list, i + 1)

groupByChannel(list) == GroupFrom(<<>>, list, 1)

(***************************************************************************)
(* loadImageMapFile and attachImagesToProgrammes.  The content of a file   *)
(* is kept as what JSON.parse makes of it: "absent" (no such file),        *)
(* "notJson" (JSON.parse throws), "null", "number", or "object" with       *)
(* channelScheduleData either JsNull (not an array) or the sequence of its *)
(* entries, each [title, boxCoverImage] with JsNull for a missing field.   *)
(***************************************************************************)
Undefined == [t |-> "undefined"]

Num(n) == [t |-> "number", n |-> n]

MapOf(entries) == [t |-> "map", entries |-> entries]

DEFAULT_IMAGE ==
    "https://upload.wikimedia.org/wikipedia/commons/thumb/4/47/TV_icon_black.svg/512px-TV_icon_black.svg.png"

\* CHANNEL_IMAGE_ID_MAP[epgChannelId]
ChannelImageId(epgChannelId) ==
    IF epgChannelId = "jio-559" THEN Num(239) ELSE Undefined

\* `${fileId}.json` under IMAGE_DB_DIR
FileName(fileId) ==
    (IF fileId.t = "number" THEN StringOf(fileId.n) ELSE fileId.v) \o ".json"

\* fs.existsSync
ExistsSync(name) == name \in DOMAIN dataDir /\ dataDir[name].kind # "absent"

\* x || ""
OrEmpty(x) == IF Falsy(x) THEN "" ELSE x.v

RECURSIVE MapGet(_, _)
\* map.get(key): Undefined when the map has no such key
MapGet(entries, key) ==
    IF Len(entries) = 0 THEN Undefined
    ELSE IF Head(entries).key = key THEN Head(entries).value
    ELSE MapGet(Tail(entries), key)

\* map.set(key, value): an existing key keeps its place
MapSet(entries, key, value) ==
    IF MapHas(entries, key)
    THEN [i \in 1..Len(entries) |->
             IF entries[i].key = key THEN [key |-> key, value |-> value]
             ELSE entries[i]]
    ELSE Append(entries, [key |-> key, value |-> value])

\* A mutant: a later entry of a title replaces the earlier one.
IndexStep_LastWins(map, item) ==
    LET title == ToLowerCase(Trim(OrEmpty(item.title)))
        img   == OrEmpty(item.boxCoverImage)
    IN  IF title = "" \/ img = "" THEN map ELSE MapSet(map, title, img)

\* One turn of the loop of loadImageMapFile
IndexStep(map, item) ==
    LET title == ToLowerCase(Trim(OrEmpty(item.title)))
        img   == OrEmpty(item.boxCoverImage)
    IN  IF title = "" \/ img = "" THEN map
        ELSE IF ~MapHas(map, title) THEN MapSet(map, title, img)
        ELSE map

RECURSIVE IndexFrom(_, _, _)
IndexFrom(map, schedule, i) ==
    IF i > Len(schedule) THEN map
    ELSE IndexFrom(IndexStep(map, schedule[i]), schedule, i + 1)

\* loadImageMapFile(fileId): what it returns, or that it threw
loadImageMapFile(fileId) ==
    LET filePath == FileName(fileId)
        parsed   == dataDir[filePath]
    IN  IF ~ExistsSync(filePath) THEN [threw |-> FALSE, value |-> JsNull]
        ELSE IF parsed.kind = "notJson" THEN [threw |-> FALSE, value |-> JsNull]
        \* parsed.channelScheduleData of null: a TypeError outside the try
        ELSE IF parsed.kind = "null" THEN [threw |-> TRUE, value |-> JsNull]
        ELSE LET schedule ==
                     IF parsed.kind = "object" /\ parsed.channelScheduleData # JsNull
                     THEN parsed.channelScheduleData.items
                     ELSE <<>>
             IN  [threw |-> FALSE, value |-> MapOf(IndexFrom(<<>>, schedule, 1))]

\* The image of one programme, titleToImage being a map, null or undefined
ImageFor(titleToImage, prog) ==
    LET key   == ToLowerCase(Trim(prog.title))
        found == IF titleToImage.t = "map" /\ key # ""
                    /\ MapHas(titleToImage.entries, key)
                 THEN MapGet(titleToImage.entries, key)
                 ELSE ""
    IN  IF found = "" THEN DEFAULT_IMAGE ELSE found

\* prog.image = img for every programme of a channel
WithImages(titleToImage, list) ==
    [i \in 1..Len(list) |->
        [startRaw |-> list[i].startRaw, stopRaw |-> list[i].stopRaw,
         start |-> list[i].start, stop |-> list[i].stop,
         channel |-> list[i].channel, title |-> list[i].title,
         subTitle |-> list[i].subTitle,
         image |-> ImageFor(titleToImage, list[i])]]

RECURSIVE AttachFrom(_, _)
\* The loop of attachImagesToProgrammes from entry k of byChannel on; run
\* holds the map as changed so far, imageMapCache and the loads made.
AttachFrom(run, k) ==
    IF k > Len(run.map) THEN run
    ELSE
      LET epgChannelId == run.map[k].key
          mapped       == ChannelImageId(epgChannelId)
          imageFileId  ==
              IF mapped # Undefined THEN mapped
              ELSE IF ExistsSync(epgChannelId \o ".json") THEN Str(epgChannelId)
              ELSE Undefined
          cached       == MapGet(run.cache, imageFileId)
          mustLoad     == imageFileId # Undefined /\ cached \in {Undefined, JsNull}
          loaded       == loadImageMapFile(imageFileId)
          titleToImage == IF imageFileId = Undefined THEN JsNull
                          ELSE IF mustLoad THEN loaded.value
                          ELSE cached
          after        ==
              [map   |-> [run.map EXCEPT ![k].value = WithImages(titleToImage, @)],
               cache |-> IF mustLoad
                         THEN MapSet(run.cache, imageFileId, loaded.value)
                         ELSE run.cache,
               loads |-> IF mustLoad THEN Append(run.loads, imageFileId)
                         ELSE run.loads,
               threw |-> FALSE]
      IN  IF mustLoad /\ loaded.threw
          THEN [run EXCEPT !.threw = TRUE, !.loads = Append(@, imageFileId)]
          ELSE AttachFrom(after, k + 1)

attachImagesToProgrammes(map) ==
    AttachFrom([map |-> map, cache |-> <<>>, loads |-> <<>>, threw |-> FALSE], 1)

(***************************************************************************)
(* The time codec's inputs: wall-clock values written as 14 digits, with   *)
(* every form of zone designator, and texts that are no timestamp.         *)
(***************************************************************************)
Wall(y, mo, d, h, mi, s) ==
    [y |-> y, mo |-> mo, d |-> d, h |-> h, mi |-> mi, s |-> s]

WallSamples ==
    { Wall(2024, 1, 1, 12, 0, 0),      Wall(2023, 12, 31, 23, 59, 59),
      Wall(2024, 2, 28, 20, 15, 30),   Wall(2023, 2, 28, 18, 30, 0),
      Wall(2100, 2, 28, 19, 0, 0),     Wall(2000, 2, 29, 0, 0, 0),
      Wall(1969, 12, 31, 18, 29, 59) }

P2(n) == PadStart(StringOf(n), 2, "0")

Digits14(w) ==
    PadStart(StringOf(w.y), 4, "0") \o P2(w.mo) \o P2(w.d)
        \o P2(w.h) \o P2(w.mi) \o P2(w.s)

\* A numeric offset: its sign, hours and minutes, written with or without colon
Offsets ==
    { [sign |-> sg, hh |-> o[1], mm |-> o[2], colon |-> c] :
        sg \in {1, -1},
        o \in {<<5, 30>>, <<0, 0>>, <<1, 0>>, <<12, 45>>},
        c \in BOOLEAN }

OffsetText(o) ==
    (IF o.sign = 1 THEN "+" ELSE "-") \o P2(o.hh)
        \o (IF o.colon THEN ":" ELSE "") \o P2(o.mm)

\* The minutes east of UTC an offset denotes
OffsetValue(o) == o.sign * (o.hh * 60 + o.mm)

Gaps == {"", " "}

NumericTexts ==
    { Digits14(w) \o g \o OffsetText(o) :
        w \in WallSamples, g \in Gaps, o \in Offsets }

UtcTexts ==
    { Digits14(w) \o g \o z : w \in WallSamples, g \in Gaps, z \in {"Z", "z"} }

BareTexts == { Digits14(w) : w \in WallSamples }
                 \cup { " " \o Digits14(w) \o "\n" : w \in WallSamples }

\* Texts whose first 14 characters, once trimmed, are not 14 digits
BadTexts ==
    { "garbage", "2024", "2024010112000", "x20240101120000", " ", "+0530",
      "2024-01-01 12:00:00", "2024010112000Z", "Z", "20240101 120000" }

TsInputs ==
    {JsNull, Str("")}
        \cup { Str(s) : s \in NumericTexts \cup UtcTexts \cup BareTexts \cup BadTexts }

HostOffsets == {0, 330, -300}

StripIdle ==
    /\ stripIn = NotCalled
    /\ stripOnce = NotCalled
    /\ stripTwice = NotCalled

NothingPublished == [epg |-> <<>>, channels |-> <<>>, meta |-> <<>>]

MultiIdle ==
    /\ sources = <<>>
    /\ mainPc = "loop"
    /\ srcIdx = 1
    /\ allProgrammes = <<>>
    /\ sourcesMeta = <<>>
    /\ published = NothingPublished
    /\ exitCode = 0

ImagesIdle ==
    /\ dataDir = <<>>
    /\ imageLoads = <<>>

DbIdle == lastFetch = NotCalled

EpgIdle ==
    /\ feed = <<>>
    /\ xmlText = ""
    /\ epgPc = "feed"
    /\ programmes = <<>>
    /\ byChannel = <<>>

TimeIdle ==
    /\ hostOffsetMin \in HostOffsets
    /\ tsIn = NotCalled
    /\ tsUtc = NotCalled
    /\ tsOut = NotCalled

\* One call of formatTimeIST
FormatTime ==
    /\ tsIn = NotCalled
    /\ \E x \in TsInputs :
        /\ tsIn' = x
        /\ tsUtc' = parseXmltvTime(x)
        /\ tsOut' = Str(formatTimeIST(x))
    /\ UNCHANGED hostOffsetMin
    /\ UNCHANGED notTime

InitTime ==
    TimeIdle /\ StripIdle /\ EpgIdle /\ MultiIdle /\ ImagesIdle /\ DbIdle

NextTime == FormatTime

SpecTime == InitTime /\ [][NextTime]_vars

(***************************************************************************)
(* Calendar arithmetic on wall-clock fields, for stating what a rendering  *)
(* must show.                                                              *)
(***************************************************************************)
IsLeapYear(y) == (y % 4 = 0 /\ y % 100 # 0) \/ y % 400 = 0

DaysInMonth(y, m) ==
    IF m = 2 THEN (IF IsLeapYear(y) THEN 29 ELSE 28)
    ELSE IF m \in {4, 6, 9, 11} THEN 30 ELSE 31

NextDay(w) ==
    IF w.d < DaysInMonth(w.y, w.mo) THEN [w EXCEPT !.d = w.d + 1]
    ELSE IF w.mo < 12 THEN [w EXCEPT !.d = 1, !.mo = w.mo + 1]
    ELSE [w EXCEPT !.d = 1, !.mo = 1, !.y = w.y + 1]

\* The wall clock 5 hours 30 minutes after w
FiveThirtyAhead(w) ==
    LET total == w.h * 60 + w.mi + 330
        same  == [w EXCEPT !.h = (total % 1440) \div 60, !.mi = total % 60]
    IN  IF total >= 1440 THEN NextDay(same) ELSE same

Rendered(w) ==
    PadStart(StringOf(w.y), 4, "0") \o "-" \o P2(w.mo) \o "-" \o P2(w.d) \o " "
        \o P2(w.h) \o ":" \o P2(w.mi) \o ":" \o P2(w.s) \o " IST"

\* C1: for every valid 14-digit timestamp followed by Z, formatTimeIST
\* returns the wall clock 5 hours 30 minutes ahead of the digits, whatever
\* the host's local time zone is.
C1_ZSuffixFiveThirtyAhead ==
    \A w \in WallSamples, g \in Gaps, z \in {"Z", "z"} :
        tsIn = Str(Digits14(w) \o g \o z)
            => tsOut = Str(Rendered(FiveThirtyAhead(w)))

\* What the code does keep of C1: on a host whose local zone is UTC.
C1_OnUtcHost == hostOffsetMin = 0 => C1_ZSuffixFiveThirtyAhead

\* C5: for a fixed digit string and two numeric offsets o1 and o2, the
\* instants parseXmltvTime computes differ by exactly the difference of the
\* offsets: utc(digits, o1) - utc(digits, o2) = (o2 - o1) minutes.
C5_OffsetDifference ==
    \A w \in WallSamples, g1 \in Gaps, o1 \in Offsets :
        tsIn = Str(Digits14(w) \o g1 \o OffsetText(o1))
            => /\ tsUtc # JsNull
               /\ \A g2 \in Gaps, o2 \in Offsets :
                     LET other == parseXmltvTime(
                                      Str(Digits14(w) \o g2 \o OffsetText(o2)))
                     IN  /\ other # JsNull
                         /\ (tsUtc.time.day - other.time.day) * MsPerDay
                                + (tsUtc.time.ms - other.time.ms)
                              = (OffsetValue(o2) - OffsetValue(o1)) * 60000

C5_Witness ==
    /\ tsIn = Str("20231231235959 -12:45")
    /\ tsUtc = DateOf([day |-> 19723, ms |-> 45899000])

\* C6: a timestamp carrying +0530 is displayed with the date and time of day
\* of its own 14 digits.
C6_PlusFiveThirtyShowsDigits ==
    \A w \in WallSamples, g \in Gaps :
        tsIn = Str(Digits14(w) \o g \o "+0530") => tsOut = Str(Rendered(w))

\* What the code does keep of C6: on a host whose local zone is UTC.
C6_OnUtcHost == hostOffsetMin = 0 => C6_PlusFiveThirtyShowsDigits

\* C7: parseXmltvTime returns null for an empty or null input and for a text
\* whose leading 14-digit pattern does not match, and formatTimeIST then
\* returns the raw input unchanged ("" for null).
C7_UnparseablePassthrough ==
    /\ tsIn \in {JsNull, Str("")} => tsUtc = JsNull /\ tsOut = Str("")
    /\ \A s \in BadTexts : tsIn = Str(s) => tsUtc = JsNull /\ tsOut = Str(s)
    /\ tsUtc = JsNull /\ tsIn \notin {JsNull, NotCalled} => tsOut = tsIn

C7_Witness == tsIn = Str("garbage") /\ tsUtc = JsNull /\ tsOut = Str("garbage")

(***************************************************************************)
(* stripTags applied to a text, and again to its own result                *)
(***************************************************************************)
MaxStripLen == 6

StripAlphabet == {"<", ">", "b", " "}

\* Longer texts, with the other white space characters
StripSamples ==
    { "<b>Hello</b>  World", " a\n\n<i>b</i>\tc ", "<a\nhref>x</a>\n",
      "1 < 2 and 3 > 2", "<<b>i</b>>", "<> <b>\t<>" }

RECURSIVE TextsOfLen(_)
TextsOfLen(n) ==
    IF n = 0 THEN {""}
    ELSE { t \o c : t \in TextsOfLen(n - 1), c \in StripAlphabet }

StripInputs == StripSamples \cup UNION { TextsOfLen(n) : n \in 0..MaxStripLen }

StripFirst ==
    /\ stripIn = NotCalled
    /\ \E x \in StripInputs :
        /\ stripIn' = Str(x)
        /\ stripOnce' = Str(stripTags(x))
    /\ UNCHANGED stripTwice
    /\ UNCHANGED notStrip

StripAgain ==
    /\ stripOnce # NotCalled
    /\ stripTwice = NotCalled
    /\ stripTwice' = Str(stripTags(stripOnce.v))
    /\ UNCHANGED <<stripIn, stripOnce>>
    /\ UNCHANGED notStrip

InitStrip ==
    /\ StripIdle /\ TimeIdle /\ hostOffsetMin = 0 /\ EpgIdle /\ MultiIdle
    /\ ImagesIdle /\ DbIdle

NextStrip == StripFirst \/ StripAgain

SpecStrip == InitStrip /\ [][NextStrip]_vars

\* C8: stripTags is idempotent: stripTags(stripTags(x)) = stripTags(x), also
\* for unbalanced, empty and adjacent angle brackets.
C8_StripIdempotent == stripTwice # NotCalled => stripTwice = stripOnce

C8_Witness ==
    /\ stripIn = Str("<<b>>")
    /\ stripOnce = Str(">")
    /\ stripTwice = Str(">")

(***************************************************************************)
(* The feed: programme blocks written out as an XMLTV document, then       *)
(* extracted and grouped.                                                  *)
(***************************************************************************)
MaxBlocks == 3

Block(style, start, stop, channel, title, sub) ==
    [style |-> style, start |-> start, stop |-> stop, channel |-> channel,
     title |-> title, sub |-> sub]

BlockSamples ==
    { Block("plain", Str("20240101120000 +0530"), Str("20240101123000 +0530"),
            Str("c1"), Str("News"), JsNull),
      Block("rich", Str("20231231235959 Z"), JsNull,
            Str("c2"), Str("<b>Hello</b>  World"), Str("Ep 1")),
      Block("plain", JsNull, JsNull, JsNull, JsNull, JsNull),
      Block("rich", Str("garbage"), Str(""), Str("c1"), JsNull, Str("Part 2")),
      Block("plain", Str(""), JsNull, Str("unknown"), Str(""), Str("")) }

AttrText(name, v) ==
    IF v = JsNull THEN "" ELSE " " \o name \o "=\"" \o v.v \o "\""

BlockText(b) ==
    IF b.style = "plain"
    THEN "<programme" \o AttrText("start", b.start) \o AttrText("stop", b.stop)
             \o AttrText("channel", b.channel) \o ">"
             \o (IF b.title = JsNull THEN ""
                 ELSE "<title>" \o b.title.v \o "</title>")
             \o (IF b.sub = JsNull THEN ""
                 ELSE "<sub-title>" \o b.sub.v \o "</sub-title>")
             \o "</programme>"
    ELSE "\n  <Programme" \o AttrText("channel", b.channel)
             \o AttrText("clumpidx", Str("0/1"))
             \o AttrText("start", b.start) \o AttrText("stop", b.stop) \o ">"
             \o (IF b.sub = JsNull THEN ""
                 ELSE "\n    <sub_title lang=\"en\">" \o b.sub.v \o "</sub_title>")
             \o "<desc>title</desc>"
             \o (IF b.title = JsNull THEN ""
                 ELSE "\n    <TITLE lang=\"en\">" \o b.title.v \o "</TITLE>")
             \o "\n  </Programme>\n"

RECURSIVE BlocksText(_)
BlocksText(blocks) ==
    IF Len(blocks) = 0 THEN "" ELSE BlockText(Head(blocks)) \o BlocksText(Tail(blocks))

DocText(blocks) ==
    "<tv><channel id=\"c1\"/>" \o BlocksText(blocks) \o "</tv>"

\* The upstream feed gains a programme block.
FeedBlock ==
    /\ epgPc = "feed"
    /\ Len(feed) < MaxBlocks
    /\ \E b \in BlockSamples :
        /\ feed' = Append(feed, b)
        /\ xmlText' = DocText(Append(feed, b))
    /\ UNCHANGED <<epgPc, programmes, byChannel>>
    /\ UNCHANGED hostOffsetMin
    /\ UNCHANGED notEpg

\* const programmes = parseEPGProgrammes(xmlText)
Extract ==
    /\ epgPc = "feed"
    /\ epgPc' = "parsed"
    /\ programmes' = parseEPGProgrammes(xmlText)
    /\ UNCHANGED <<feed, xmlText, byChannel>>
    /\ UNCHANGED hostOffsetMin
    /\ UNCHANGED notEpg

\* const byChannel = groupByChannel(programmes)
Group ==
    /\ epgPc = "parsed"
    /\ epgPc' = "grouped"
    /\ byChannel' = groupByChannel(programmes)
    /\ UNCHANGED <<feed, xmlText, programmes>>
    /\ UNCHANGED hostOffsetMin
    /\ UNCHANGED notEpg

InitExtract ==
    /\ TimeIdle
    /\ hostOffsetMin \in {0, 330}
    /\ StripIdle
    /\ feed = <<>>
    /\ xmlText = DocText(<<>>)
    /\ epgPc = "feed"
    /\ programmes = <<>>
    /\ byChannel = <<>>
    /\ MultiIdle
    /\ ImagesIdle
    /\ DbIdle

NextExtract == FeedBlock \/ Extract \/ Group

SpecExtract == InitExtract /\ [][NextExtract]_vars

ValueOr(v, dflt) == IF v = JsNull THEN dflt ELSE v.v

\* C2: parseEPGProgrammes emits exactly one record per programme span, in
\* document order: startRaw, stopRaw and channel are the attribute values
\* verbatim ("" when absent), title is "Untitled" when the body has no title
\* element and subTitle is "" when it has no sub-title element.
C2_OneRecordPerSpan ==
    epgPc # "feed" =>
        /\ Len(programmes) = Len(feed)
        /\ \A i \in 1..Len(feed) :
              /\ programmes[i].startRaw = ValueOr(feed[i].start, "")
              /\ programmes[i].stopRaw = ValueOr(feed[i].stop, "")
              /\ programmes[i].channel = ValueOr(feed[i].channel, "")
              /\ feed[i].title = JsNull => programmes[i].title = "Untitled"
              /\ feed[i].sub = JsNull => programmes[i].subTitle = ""

C2_Witness ==
    /\ epgPc = "parsed"
    /\ Len(programmes) = 3
    /\ programmes[1].title = "Untitled" /\ programmes[1].startRaw = "garbage"
    /\ programmes[2].channel = "" /\ programmes[2].subTitle = ""
    /\ programmes[3].title = "Hello World" /\ programmes[3].subTitle = "Ep 1"

KeyOf(p) == IF p.channel = "" THEN "unknown" ELSE p.channel

\* the position at which a channel key first appears in the programme list
FirstAppearance(key) ==
    CHOOSE i \in 1..Len(programmes) :
        /\ KeyOf(programmes[i]) = key
        /\ \A j \in 1..(i - 1) : KeyOf(programmes[j]) # key

\* C3: groupByChannel returns a mapping whose keys are exactly the distinct
\* channel values present ("unknown" for the empty channel), in order of
\* first appearance, each bucket being the subsequence of the programme list
\* that carries that channel, in the list's order.
C3_GroupsByChannel ==
    epgPc = "grouped" =>
        /\ { byChannel[k].key : k \in 1..Len(byChannel) }
               = { KeyOf(programmes[i]) : i \in 1..Len(programmes) }
        /\ \A k, l \in 1..Len(byChannel) :
               k < l => /\ byChannel[k].key # byChannel[l].key
                        /\ FirstAppearance(byChannel[k].key)
                              < FirstAppearance(byChannel[l].key)
        /\ \A k \in 1..Len(byChannel) :
               LET Carries(p) == KeyOf(p) = byChannel[k].key
               IN  byChannel[k].value = SelectSeq(programmes, Carries)

C3_Witness ==
    /\ epgPc = "grouped"
    /\ Len(programmes) = 3
    /\ Len(byChannel) = 2
    /\ byChannel[1].key = "c1" /\ Len(byChannel[1].value) = 2
    /\ byChannel[2].key = "unknown" /\ Len(byChannel[2].value) = 1
    /\ byChannel[1].value[2] = programmes[3]
    /\ byChannel[2].value[1].channel = ""

(***************************************************************************)
(* main of the revision that merges several sources                        *)
(***************************************************************************)
\* EPG_SOURCES.length
NumSources == 2

MaxSourceBlocks == 1

RECURSIVE FeedsOfLen(_)
FeedsOfLen(n) ==
    IF n = 0 THEN {<<>>}
    ELSE { Append(f, b) : f \in FeedsOfLen(n - 1), b \in BlockSamples }

\* What a source may answer: a failed response, a body that is no gzip
\* stream, or the gzip of a document
SourceAnswers ==
    { [kind |-> "httpError", blocks |-> <<>>], [kind |-> "badGzip", blocks |-> <<>>] }
        \cup { [kind |-> "ok", blocks |-> f] :
                  f \in UNION { FeedsOfLen(n) : n \in 1..MaxSourceBlocks } }

\* a.localeCompare(b) < 0 for texts of digits and lower-case letters
Collation == "0123456789abcdefghijklmnopqrstuvwxyz"

RECURSIVE ComesBefore(_, _)
ComesBefore(a, b) ==
    IF Len(b) = 0 THEN FALSE
    ELSE IF Len(a) = 0 THEN TRUE
    ELSE LET ra == IndexOfChar(Collation, Head(a), 1)
             rb == IndexOfChar(Collation, Head(b), 1)
         IN  IF ra # rb THEN ra < rb ELSE ComesBefore(Tail(a), Tail(b))

RECURSIVE SortByChannel(_)
\* channelsIndex.sort((a, b) => a.channel.localeCompare(b.channel))
SortByChannel(index) ==
    IF Len(index) <= 1 THEN index
    ELSE LET rest == SortByChannel(Tail(index))
             h    == Head(index)
             Before(e) == ComesBefore(e.channel, h.channel)
             NotBefore(e) == ~ComesBefore(e.channel, h.channel)
         IN  SelectSeq(rest, Before) \o <<h>> \o SelectSeq(rest, NotBefore)

\* for (const url of EPG_SOURCES): downloadAndParseEPG(url) returns
MainDownload ==
    /\ mainPc = "loop"
    /\ srcIdx <= NumSources
    /\ sources[srcIdx].kind = "ok"
    /\ LET list == parseEPGProgrammes(DocText(sources[srcIdx].blocks))
       IN  /\ allProgrammes' = allProgrammes \o list
           /\ sourcesMeta' = Append(sourcesMeta, [url |-> srcIdx, count |-> Len(list)])
    /\ srcIdx' = srcIdx + 1
    /\ UNCHANGED <<sources, mainPc, published, exitCode>>
    /\ UNCHANGED hostOffsetMin
    /\ UNCHANGED notMulti

\* downloadAndParseEPG(url) throws (response not ok, or gunzipSync fails):
\* the catch of main logs and calls process.exit(1)
MainDownloadThrows ==
    /\ mainPc = "loop"
    /\ srcIdx <= NumSources
    /\ sources[srcIdx].kind # "ok"
    /\ mainPc' = "exited"
    /\ exitCode' = 1
    /\ UNCHANGED <<sources, srcIdx, allProgrammes, sourcesMeta, published>>
    /\ UNCHANGED hostOffsetMin
    /\ UNCHANGED notMulti

\* After the loop: group, write the channel files, the index and the metadata
MainPublish ==
    /\ mainPc = "loop"
    /\ srcIdx > NumSources
    /\ LET grouped == groupByChannel(allProgrammes)
           channelsIndex ==
               [k \in 1..Len(grouped) |->
                   [channel |-> grouped[k].key, count |-> Len(grouped[k].value)]]
       IN  published' =
               [epg |-> grouped,
                channels |-> SortByChannel(channelsIndex),
                meta |-> <<[totalProgrammes |-> Len(allProgrammes),
                            totalChannels |-> Len(channelsIndex),
                            sources |-> sourcesMeta]>>]
    /\ mainPc' = "done"
    /\ UNCHANGED <<sources, srcIdx, allProgrammes, sourcesMeta, exitCode>>
    /\ UNCHANGED hostOffsetMin
    /\ UNCHANGED notMulti

InitMulti ==
    /\ TimeIdle
    /\ StripIdle
    /\ EpgIdle
    /\ ImagesIdle
    /\ DbIdle
    /\ sources \in [1..NumSources -> SourceAnswers]
    /\ mainPc = "loop"
    /\ srcIdx = 1
    /\ allProgrammes = <<>>
    /\ sourcesMeta = <<>>
    /\ published = NothingPublished
    /\ exitCode = 0

NextMulti == MainDownload \/ MainDownloadThrows \/ MainPublish

SpecMulti == InitMulti /\ [][NextMulti]_vars

\* the programmes the channel files written this run hold
PublishedProgrammes ==
    UNION { { published.epg[k].value[i] : i \in 1..Len(published.epg[k].value) } :
              k \in 1..Len(published.epg) }

SomeSourceFailed == \E i \in 1..NumSources : sources[i].kind # "ok"

\* C4: when the download or decompression of one source fails, the run still
\* processes the other sources, writes their programmes to the per-channel
\* output and records the partial success in the metadata.
C4_OtherSourcesPublished ==
    (mainPc # "loop" /\ SomeSourceFailed)
    => \A j \in 1..NumSources :
          sources[j].kind = "ok" =>
              LET list == parseEPGProgrammes(DocText(sources[j].blocks))
              IN  /\ mainPc = "done"
                  /\ \A i \in 1..Len(list) : list[i] \in PublishedProgrammes
                  /\ Len(published.meta) = 1
                  /\ \E e \in 1..Len(published.meta[1].sources) :
                        published.meta[1].sources[e] = [url |-> j, count |-> Len(list)]

\* What the code does: a run in which a source fails writes nothing and
\* exits with code 1.
C4_FailedSourceAbortsRun ==
    (mainPc # "loop" /\ SomeSourceFailed)
    => mainPc = "exited" /\ exitCode = 1 /\ published = NothingPublished

(***************************************************************************)
(* main of the revision that attaches images: the grouped programmes and   *)
(* the image database files it finds                                       *)
(***************************************************************************)
MaxEntries == 2

Entry(title, image) == [title |-> title, boxCoverImage |-> image]

EntrySamples ==
    { Entry(Str(" News "), Str("u1")), Entry(Str("news"), Str("u2")),
      Entry(Str("News"), Str("")),     Entry(JsNull, Str("u3")),
      Entry(Str("Film"), JsNull) }

RECURSIVE SchedulesOfLen(_)
SchedulesOfLen(n) ==
    IF n = 0 THEN {<<>>}
    ELSE { Append(a, e) : a \in SchedulesOfLen(n - 1), e \in EntrySamples }

Absent == [kind |-> "absent"]

\* The contents that hold no usable channelScheduleData array
MalformedContents ==
    { Absent, [kind |-> "notJson"], [kind |-> "null"], [kind |-> "number"],
      [kind |-> "object", channelScheduleData |-> JsNull] }

ScheduleContents ==
    { [kind |-> "object", channelScheduleData |-> [items |-> a]] :
        a \in UNION { SchedulesOfLen(n) : n \in 0..MaxEntries } }

DataDirs ==
    { [name \in {"239.json", "c1.json"} |->
          IF name = "239.json" THEN a ELSE b] :
        a \in MalformedContents \cup ScheduleContents,
        b \in { Absent, [kind |-> "notJson"],
                [kind |-> "object",
                 channelScheduleData |->
                     [items |-> <<Entry(Str("FILM"), Str("u4"))>>]] } }

\* The channels of the guide, in the order of their first programme
ChannelOrders ==
    { <<"jio-559">>, <<"c1">>, <<"239", "jio-559">>, <<"jio-559", "239">>,
      <<"", "c1">>, <<"c1", "jio-559", "c2">>, <<"jio-559", "c1", "239">> }

Listing(channel, title) ==
    [startRaw |-> "", stopRaw |-> "", start |-> "", stop |-> "",
     channel |-> channel, title |-> title, subTitle |-> ""]

RECURSIVE GuideOf(_)
\* three programmes on each channel of the order
GuideOf(order) ==
    IF Len(order) = 0 THEN <<>>
    ELSE <<Listing(Head(order), "News"), Listing(Head(order), "FILM"),
           Listing(Head(order), "")>> \o GuideOf(Tail(order))

\* attachImagesToProgrammes(byChannel) returns or throws
Attach ==
    /\ epgPc = "grouped"
    /\ LET run == attachImagesToProgrammes(byChannel)
       IN  /\ byChannel' = run.map
           /\ imageLoads' = run.loads
           /\ epgPc' = IF run.threw THEN "threw" ELSE "attached"
    /\ UNCHANGED <<feed, xmlText, programmes, dataDir>>
    /\ UNCHANGED notImages

InitImages ==
    /\ TimeIdle
    /\ hostOffsetMin = 0
    /\ StripIdle
    /\ MultiIdle
    /\ feed = <<>>
    /\ xmlText = ""
    /\ \E order \in ChannelOrders :
          /\ programmes = GuideOf(order)
          /\ byChannel = groupByChannel(GuideOf(order))
    /\ epgPc = "grouped"
    /\ dataDir \in DataDirs
    /\ imageLoads = <<>>
    /\ DbIdle

NextImages == Attach

SpecImages == InitImages /\ [][NextImages]_vars

\* The file that backs a channel: the one the table names, else the file
\* named after the channel, else none (Absent)
BackingContent(channel) ==
    IF channel = "jio-559" THEN dataDir["239.json"]
    ELSE IF (channel \o ".json") \in DOMAIN dataDir THEN dataDir[channel \o ".json"]
    ELSE Absent

\* the entries of a content, none when it holds no array
EntriesOf(content) ==
    IF content.kind = "object" /\ content.channelScheduleData # JsNull
    THEN content.channelScheduleData.items
    ELSE <<>>

NormalTitle(x) == ToLowerCase(Trim(x))

\* the positions of the entries that carry the title of a programme
Occurrences(items, title) ==
    { i \in 1..Len(items) :
        /\ items[i].title # JsNull
        /\ NormalTitle(items[i].title.v) = NormalTitle(title) }

\* those among them that also carry an image
UsableOccurrences(items, title) ==
    { i \in Occurrences(items, title) :
        /\ NormalTitle(title) # ""
        /\ items[i].boxCoverImage \notin {JsNull, Str("")} }

Least(S) == CHOOSE i \in S : \A j \in S : i <= j

AllListings ==
    UNION { { <<byChannel[k].key, byChannel[k].value[i]>> :
                i \in 1..Len(byChannel[k].value) } : k \in 1..Len(byChannel) }

\* C9 as stated: a programme whose title is an index key receives the image
\* of the first occurrence of that title in the file (later duplicates
\* ignored), every other programme the default; every image is non-empty.
C9_FirstOccurrenceWins ==
    epgPc = "attached" =>
        \A l \in AllListings :
            LET items == EntriesOf(BackingContent(l[1]))
            IN  /\ l[2].image # ""
                /\ IF UsableOccurrences(items, l[2].title) # {}
                   THEN l[2].image
                          = items[Least(Occurrences(items, l[2].title))].boxCoverImage.v
                   ELSE l[2].image = DEFAULT_IMAGE

\* C9 as amended: the index holds for each title the image of the first
\* entry that carries that title and a non-empty image.
C9_FirstUsableOccurrenceWins ==
    epgPc = "attached" =>
        \A l \in AllListings :
            LET items == EntriesOf(BackingContent(l[1]))
            IN  /\ l[2].image # ""
                /\ IF UsableOccurrences(items, l[2].title) # {}
                   THEN l[2].image
                          = items[Least(UsableOccurrences(items, l[2].title))].boxCoverImage.v
                   ELSE l[2].image = DEFAULT_IMAGE

C9_Witness ==
    /\ epgPc = "attached"
    /\ dataDir["239.json"] = [kind |-> "object", channelScheduleData |->
           [items |-> <<Entry(Str("News"), Str("")), Entry(Str("news"), Str("u2"))>>]]
    /\ Len(byChannel) = 3
    /\ byChannel[1].key = "jio-559"
    /\ byChannel[1].value[1].image = "u2"
    /\ byChannel[1].value[2].image = DEFAULT_IMAGE
    /\ byChannel[2].key = "c1"
    /\ byChannel[2].value[2].image = "u4"

\* C10: whatever the content of the file selected for a channel,
\* attachImagesToProgrammes completes without raising, and the programmes of
\* a channel whose file is missing or malformed get the default image.
C10_MalformedFileNeverFatal ==
    /\ epgPc # "threw"
    /\ epgPc = "attached" =>
          \A l \in AllListings :
              BackingContent(l[1]) \in MalformedContents
                  => l[2].image = DEFAULT_IMAGE

(***************************************************************************)
(* update-epg-db.mjs: the image database accumulator.  It writes the files *)
(* of data/ that loadImageMapFile reads.  A value the API sends is kept as *)
(* what res.json() makes of it; JSON.stringify followed by JSON.parse      *)
(* gives such a value back unchanged, so a file written here holds the     *)
(* object that was written, with kind "object" as above.                   *)
(***************************************************************************)
\* What fetch(url) and res.json() give for an answer of the API:
\* "reject" (no connection, or a body that is no JSON), "httpError"
\* (!res.ok), else the parsed body
fetchChannel(answer) ==
    IF answer.kind = "reject" THEN [threw |-> TRUE, value |-> JsNull]
    ELSE IF answer.kind = "httpError" THEN [threw |-> FALSE, value |-> JsNull]
    ELSE [threw |-> FALSE, value |-> answer.body]

\* The structure of a new channel file
NewChannelFile(channelId, channelName) ==
    [channelId |-> channelId, channelName |-> channelName,
     channelScheduleData |-> <<>>]

\* parsed.field ??= value
OrAssign(parsed, field, value) ==
    IF field \in DOMAIN parsed /\ parsed[field] # JsNull THEN parsed[field]
    ELSE value

loadExistingChannelFile(channelId, channelName) ==
    LET filePath == FileName(channelId)
        parsed   == dataDir[filePath]
    IN  IF ~ExistsSync(filePath)
        THEN [filePath |-> filePath, json |-> NewChannelFile(channelId, channelName)]
        \* JSON.parse throws, or the body is null or a number and the property
        \* access in the try throws: the catch recreates the structure
        ELSE IF parsed.kind # "object"
        THEN [filePath |-> filePath, json |-> NewChannelFile(channelId, channelName)]
        ELSE [filePath |-> filePath,
              json |-> [channelId |-> OrAssign(parsed, "channelId", channelId),
                        channelName |-> OrAssign(parsed, "channelName", channelName),
                        channelScheduleData |->
                            IF parsed.channelScheduleData # JsNull
                            THEN parsed.channelScheduleData.items
                            ELSE <<>>]]

\* A mutant: the test of existingTitles is left out.
MergeStep_NoDuplicateTest(acc, item) ==
    IF acc.threw THEN acc
    ELSE IF item.title.t = "number" /\ item.title # Num(0)
    THEN [acc EXCEPT !.threw = TRUE]
    ELSE LET title == IF item.title = Num(0) THEN "" ELSE Trim(OrEmpty(item.title))
             boxCoverImage == OrEmpty(item.boxCoverImage)
         IN  IF title = "" \/ boxCoverImage = "" THEN acc
             ELSE [list   |-> Append(acc.list, Entry(Str(title), Str(boxCoverImage))),
                   titles |-> acc.titles \cup {Str(title)},
                   threw  |-> FALSE]

\* One turn of the loop of processChannel over scheduleRaw; acc holds
\* json.channelScheduleData, existingTitles and whether a turn has thrown.
\* (item.title || "").trim() of a non-zero number is a TypeError.
MergeStep(acc, item) ==
    IF acc.threw THEN acc
    ELSE IF item.title.t = "number" /\ item.title # Num(0)
    THEN [acc EXCEPT !.threw = TRUE]
    ELSE LET title == IF item.title = Num(0) THEN "" ELSE Trim(OrEmpty(item.title))
             boxCoverImage == OrEmpty(item.boxCoverImage)
         IN  IF title = "" \/ boxCoverImage = "" THEN acc
             ELSE IF Str(title) \in acc.titles THEN acc
             ELSE [list   |-> Append(acc.list, Entry(Str(title), Str(boxCoverImage))),
                   titles |-> acc.titles \cup {Str(title)},
                   threw  |-> FALSE]

RECURSIVE MergeFrom(_, _, _)
MergeFrom(acc, scheduleRaw, i) ==
    IF i > Len(scheduleRaw) THEN acc
    ELSE MergeFrom(MergeStep(acc, scheduleRaw[i]), scheduleRaw, i + 1)

\* JSON.stringify(json, null, 2) as fs.writeFileSync stores it
WriteJson(json) ==
    [kind |-> "object", channelId |-> json.channelId,
     channelName |-> json.channelName,
     channelScheduleData |-> [items |-> json.channelScheduleData]]

\* processChannel(pathId) when the API gives answer: the files of data/ after
\* it has returned or thrown
processChannel(pathId, answer) ==
    LET fetched == fetchChannel(answer)
        apiData == fetched.value
    IN  IF fetched.threw THEN dataDir
        ELSE IF apiData = JsNull THEN dataDir
        ELSE IF apiData.code # Num(0) THEN dataDir
        ELSE
          LET data        == apiData.data
              channelMeta == IF data = JsNull THEN JsNull ELSE data.channelMeta
              scheduleRaw ==
                  IF data # JsNull /\ data.channelScheduleData # JsNull
                  THEN data.channelScheduleData.items
                  ELSE <<>>
          IN  IF channelMeta = JsNull THEN dataDir
              ELSE IF channelMeta.id \in {JsNull, Num(0)} THEN dataDir
              ELSE
                LET channelId   == channelMeta.id
                    channelName == Str(OrEmpty(channelMeta.name))
                    existing    == loadExistingChannelFile(channelId, channelName)
                    json        == existing.json
                    existingTitles ==
                        { json.channelScheduleData[i].title :
                            i \in 1..Len(json.channelScheduleData) }
                    merged      ==
                        MergeFrom([list |-> json.channelScheduleData,
                                   titles |-> existingTitles, threw |-> FALSE],
                                  scheduleRaw, 1)
                IN  IF merged.threw THEN dataDir
                    ELSE [dataDir EXCEPT ![existing.filePath] =
                             WriteJson([json EXCEPT
                                           !.channelScheduleData = merged.list])]

(***************************************************************************)
(* Runs of processChannel, one after another, over a data/ directory that  *)
(* starts without the channels' files.                                     *)
(***************************************************************************)
MaxApiItems == 2

\* The first of CHANNEL_IDS
PathIds == {239}

DbFiles == { FileName(Num(id)) : id \in PathIds }

ApiItemSamples ==
    { Entry(Str(" A "), Str("u1")), Entry(Str("A"), Str("u2")),
      Entry(Str("B"), Str("u3")),   Entry(Str("B"), JsNull),
      Entry(Str("  "), Str("u4")),  Entry(Num(5), Str("u5")) }

RECURSIVE ApiSchedulesOfLen(_)
ApiSchedulesOfLen(n) ==
    IF n = 0 THEN {<<>>}
    ELSE { Append(a, e) : a \in ApiSchedulesOfLen(n - 1), e \in ApiItemSamples }

ApiBody(code, data) == [kind |-> "json", body |-> [code |-> Num(code), data |-> data]]

ApiData(channelMeta, schedule) ==
    [channelMeta |-> channelMeta, channelScheduleData |-> schedule]

ChannelMeta(id, name) == [id |-> id, name |-> name]

\* What the API may answer to the request for pathId: a channelMeta.id, when
\* there is one, is the id asked for
ApiAnswers(pathId) ==
    LET meta == ChannelMeta(Num(pathId), Str("Pogo"))
        one  == [items |-> <<Entry(Str("A"), Str("u2")), Entry(Str("C"), Str("u6"))>>]
    IN  { [kind |-> "reject"], [kind |-> "httpError"],
          [kind |-> "json", body |-> JsNull],
          ApiBody(1, ApiData(meta, one)),
          ApiBody(0, JsNull),
          ApiBody(0, ApiData(JsNull, one)),
          ApiBody(0, ApiData(ChannelMeta(JsNull, Str("Pogo")), one)),
          ApiBody(0, ApiData(ChannelMeta(Num(pathId), JsNull), JsNull)) }
        \cup { ApiBody(0, ApiData(meta, [items |-> a])) :
                 a \in UNION { ApiSchedulesOfLen(n) : n \in 0..MaxApiItems } }

\* await processChannel(id)
ProcessChannel ==
    /\ \E pathId \in PathIds :
          \E answer \in ApiAnswers(pathId) :
              /\ lastFetch' = [pathId |-> pathId, answer |-> answer]
              /\ dataDir' = processChannel(pathId, answer)
    /\ UNCHANGED notDb

InitDb ==
    /\ TimeIdle
    /\ hostOffsetMin = 0
    /\ StripIdle
    /\ EpgIdle
    /\ MultiIdle
    /\ dataDir = [name \in DbFiles |-> Absent]
    /\ imageLoads = <<>>
    /\ DbIdle

NextDb == ProcessChannel

SpecDb == InitDb /\ [][NextDb]_vars

\* the titles a list of entries stores
TitlesOf(list) == { list[i].title : i \in 1..Len(list) }

NoTitleTwice(list) ==
    \A i, j \in 1..Len(list) : i # j => list[i].title # list[j].title

\* list starts with the entries of earlier, in their order
Extends(list, earlier) ==
    /\ Len(list) >= Len(earlier)
    /\ SubSeq(list, 1, Len(earlier)) = earlier

\* an API entry with a non-empty trimmed title and a non-empty image
Usable(item) ==
    /\ item.title.t = "string"
    /\ Trim(item.title.v) # ""
    /\ item.boxCoverImage.t = "string"
    /\ item.boxCoverImage.v # ""

\* The positions of the API entries a run is to add: usable, of a title
\* the file does not store, and the first of that title in the answer
NewPositions(stored, items) ==
    { i \in 1..Len(items) :
        /\ Usable(items[i])
        /\ Str(Trim(items[i].title.v)) \notin TitlesOf(stored)
        /\ \A j \in 1..(i - 1) :
              Usable(items[j]) => Trim(items[j].title.v) # Trim(items[i].title.v) }

RECURSIVE EntriesAt(_, _, _)
\* the entries at the positions I from i on, trimmed, in the answer's order
EntriesAt(items, I, i) ==
    IF i > Len(items) THEN <<>>
    ELSE (IF i \in I
          THEN <<Entry(Str(Trim(items[i].title.v)), items[i].boxCoverImage)>>
          ELSE <<>>) \o EntriesAt(items, I, i + 1)

\* the fetch failed (no answer, HTTP error, no body) or its code is not 0
FetchFailedOrNonZero(answer) ==
    \/ answer.kind \in {"reject", "httpError"}
    \/ answer.body = JsNull
    \/ answer.body.code # Num(0)

\* the entries of the answer's data.channelScheduleData
AnswerItems(answer) ==
    IF answer.body.data # JsNull /\ answer.body.data.channelScheduleData # JsNull
    THEN answer.body.data.channelScheduleData.items
    ELSE <<>>

\* the answer names its channel
HasChannelId(answer) ==
    /\ answer.body.data # JsNull
    /\ answer.body.data.channelMeta # JsNull
    /\ answer.body.data.channelMeta.id \notin {JsNull, Num(0)}

\* an entry whose title is no string makes the run raise
RaisesOnItems(answer) ==
    \E i \in 1..Len(AnswerItems(answer)) :
        AnswerItems(answer)[i].title.t = "number"

\* what every run keeps: the stored entries, their images and order, and
\* no title twice
KeepsStored ==
    \A name \in DOMAIN dataDir :
        /\ Extends(EntriesOf(dataDir'[name]), EntriesOf(dataDir[name]))
        /\ NoTitleTwice(EntriesOf(dataDir'[name]))

\* the run just made adds exactly the new usable entries to its channel file
AddsExactlyNew ==
    LET name   == FileName(Num(lastFetch'.pathId))
        stored == EntriesOf(dataDir[name])
        items  == AnswerItems(lastFetch'.answer)
    IN  EntriesOf(dataDir'[name])
            = stored \o EntriesAt(items, NewPositions(stored, items), 1)

FileReads == { i \in 1..Len(imageLoads) : ExistsSync(FileName(imageLoads[i])) }

\* C12: within one run of attachImagesToProgrammes no file of the image
\* database is read and parsed more than once, however many channels
\* resolve to it and whether its load succeeded or failed.
C12_SourceBuiltAtMostOnce ==
    \A i, j \in FileReads :
        i # j => FileName(imageLoads[i]) # FileName(imageLoads[j])

\* What the cache does give: no key of imageMapCache (the number 239 and the
\* string "239" being two keys) is loaded twice.
C12_CacheKeyLoadedAtMostOnce ==
    \A i, j \in 1..Len(imageLoads) : i # j => imageLoads[i] # imageLoads[j]

====
